---- MODULE Spec2Model ----
(***************************************************************************)
(* Model of generate_align.py: main(args).                                 *)
(*                                                                         *)
(* main is a single-threaded pipeline: it checks three assertions on the   *)
(* parsed options, sets up task / dictionaries / models / batch iterator   *)
(* through the framework, derives the punctuation-id lists, allocates the  *)
(* results buffer align_sents, walks the batch iterator (dispatching to    *)
(* one of two extraction routines and appending per-sample results), and   *)
(* finally writes the buffer to the .align file.                           *)
(*                                                                         *)
(* The framework (fairseq tasks, checkpoint_utils, the extraction utils)   *)
(* is outside the repository. Its outputs are inputs of the model: the     *)
(* dictionaries, the batches the iterator yields, and the alignment an     *)
(* extraction call returns for a sample. An alignment is kept symbolic:    *)
(* the value returned for sample id by the n-th batch is the term          *)
(* <<n, id>>, so any two results may differ.                               *)
(***************************************************************************)
EXTENDS Integers, Sequences, FiniteSets, TLC

(***************************************************************************)
(* Bounds of the model.                                                    *)
(***************************************************************************)
\* Number of samples (ids, counted with repetition) the iterator yields in a run.
MaxSamples == 3
\* Largest beam / nbest value enumerated.
MaxBeam == 2
\* Largest number of symbols in an enumerated dictionary.
MaxVocab == 2

(***************************************************************************)
(* Program constants.                                                      *)
(***************************************************************************)
\* range(4000000) at line 96, scaled down: slots 0 .. Capacity-1.
Capacity == 2
\* args.max_tokens = 12000 at line 27.
DefaultMaxTokens == 12000

\* Python's None, and the state of a local name that has not been bound yet.
\* A value v is carried as Some(v), so that it can be told from both.
None == <<"None">>
Unbound == <<"Unbound">>
Some(v) == <<"some", v>>
Val(o) == o[2]

\* Sample ids a batch may carry: every valid slot index, and ids at and
\* above the capacity.
SampleIds == 0 .. Capacity + 1

VARIABLES
    args,             \* the parsed options (argparse namespace)
    pc,               \* position of main
    error,            \* the uncaught exception that ended main, or NoError
    src_dict,         \* source dictionary: sequence of symbols, None, or Unbound
    tgt_dict,         \* target dictionary
    src_punc_tokens,  \* list of ids, None, or Unbound
    tgt_punc_tokens,  \* list of ids, or Unbound
    align_sents,      \* results buffer: [0..Capacity-1 -> Seq(result)], or Unbound
    itr,              \* batch iterator: Unbound, "active", "exhausted"
    sample,           \* the batch of the current loop iteration, or Unbound
    alignments,       \* return value of the extraction call, None, or Unbound
    todo,             \* ids of sample['id'].tolist() the inner loop has not visited
    out_file,         \* the .align file as written by this run: NotCreated or lines
    \* history variables (not program state)
    batches,          \* every batch the iterator has yielded, in order
    calls,            \* every extraction call: [batch |-> n, fn |-> name]
    log               \* every append to the buffer: <<id, result>>, in order

vars == << args, pc, error, src_dict, tgt_dict, src_punc_tokens, tgt_punc_tokens,
           align_sents, itr, sample, alignments, todo, out_file,
           batches, calls, log >>

\* error when no exception was raised; out_file when the run did not open it.
NoError == "none"
NotCreated == <<"NotCreated">>

(***************************************************************************)
(* string.punctuation and the `in` test on strings.                        *)
(* A Python str is modelled as the sequence of its code points.            *)
(***************************************************************************)
\* string.punctuation (line 86), as code points:
\*   !"#$%&'()*+,-./   :;<=>?@   [\]^_`   {|}~
punc == << 33, 34, 35, 36, 37, 38, 39, 40, 41, 42, 43, 44, 45, 46, 47,
           58, 59, 60, 61, 62, 63, 64,
           91, 92, 93, 94, 95, 96,
           123, 124, 125, 126 >>

\* `s in t` for two Python strings: s occurs in t as a contiguous substring.
StrIn(s, t) ==
    \E i \in 0 .. (Len(t) - Len(s)) : SubSeq(t, i + 1, i + Len(s)) = s

\* [w for w in range(len(d)) if d[w] in punc]  (lines 87, 88): ascending ids.
PuncTokens(d) ==
    LET F[n \in 0 .. Len(d)] ==
            IF n = 0 THEN << >>
            ELSE IF StrIn(d[n], punc) THEN Append(F[n - 1], n - 1) ELSE F[n - 1]
    IN  F[Len(d)]

\* Token strings the dictionaries are built from:
\*   ""  "a"  "."  "("  "()"  ")("  "a."  "./"
\* the empty string, a letter, single punctuation characters, and
\* two-character strings that do / do not occur contiguously in
\* string.punctuation.
Tokens == { << >>, <<97>>, <<46>>, <<40>>, <<40, 41>>, <<41, 40>>, <<97, 46>>,
            <<46, 47>> }

\* Dictionaries of at most n symbols; symbol w+1 of the sequence has id w.
Dictionaries(n) == UNION { [1 .. k -> Tokens] : k \in 0 .. n }

\* The dictionary the task provides in full runs.
LoadedDict == << <<97>>, <<46>> >>

(***************************************************************************)
(* Options.                                                                *)
(***************************************************************************)
\* Fault injection: the sampling assertion with its negation dropped.
AssertSamplingInverted(a) == a.sampling \/ a.nbest = a.beam

\* The three assertions of lines 18-22.
AssertPath(a) == a.path # None
AssertSampling(a) == (~a.sampling) \/ a.nbest = a.beam
AssertReplaceUnk(a) == a.replace_unk = None \/ a.raw_text

\* Fault injection: the append guarded by the alignment flag alone.
ShouldBufferFlagOnly(a) == a.print_vanilla_alignment

\* Fault injection: the output file written whenever an output directory is set.
ShouldWriteDirOnly(a) == a.decoding_path # None

\* Line 111: the condition under which a result is appended.
ShouldBuffer(a) == a.print_vanilla_alignment /\ a.decoding_path # None
\* Line 95: the condition under which the buffer is allocated.
ShouldAllocate(a) == a.decoding_path # None
\* Line 115: the condition under which the output file is opened.
ShouldWrite(a) == a.decoding_path # None /\ a.print_vanilla_alignment

\* Fault injection: the two branches of the dispatch exchanged.
StrategySwapped(a) ==
    IF a.set_shift THEN "extract_soft_alignment_2_noshift"
                   ELSE "extract_soft_alignment_2"

\* Lines 103-106: the extraction routine a batch is handed to.
Strategy(a) ==
    IF a.set_shift THEN "extract_soft_alignment_2"
                   ELSE "extract_soft_alignment_2_noshift"

AllArgs ==
    [ path : {None, Some("model.pt")},
      sampling : BOOLEAN,
      nbest : 1 .. MaxBeam,
      beam : 1 .. MaxBeam,
      replace_unk : {None, Some("align.dict")},
      raw_text : BOOLEAN,
      max_tokens : {None, Some(4000)},
      max_sentences : {None, Some(8)},
      print_vanilla_alignment : BOOLEAN,
      decoding_path : {None, Some("out")},
      set_shift : BOOLEAN ]

\* Runs with the generation options left at their parser defaults.
DefaultArgs ==
    { a \in AllArgs : /\ ~a.sampling /\ a.nbest = 1 /\ a.beam = 1
                      /\ a.replace_unk = None /\ ~a.raw_text
                      /\ a.max_tokens = None /\ a.max_sentences = None }

InitWith(A) ==
    /\ args \in A
    /\ pc = "start"
    /\ error = NoError
    /\ src_dict = Unbound
    /\ tgt_dict = Unbound
    /\ src_punc_tokens = Unbound
    /\ tgt_punc_tokens = Unbound
    /\ align_sents = Unbound
    /\ itr = Unbound
    /\ sample = Unbound
    /\ alignments = Unbound
    /\ todo = << >>
    /\ out_file = NotCreated
    /\ batches = << >>
    /\ calls = << >>
    /\ log = << >>

Init == InitWith(DefaultArgs)

\* An uncaught exception: main ends, nothing else changes.
Raise(e) ==
    /\ pc' = "failed"
    /\ error' = e

(***************************************************************************)
(* Lines 18-28: assertions, default token budget.                          *)
(***************************************************************************)
CheckArgs ==
    /\ pc = "start"
    /\ IF AssertPath(args) /\ AssertSampling(args) /\ AssertReplaceUnk(args)
       THEN /\ pc' = "setup"
            /\ args' = IF args.max_tokens = None /\ args.max_sentences = None
                       THEN [args EXCEPT !.max_tokens = Some(DefaultMaxTokens)]
                       ELSE args
            /\ UNCHANGED error
       ELSE /\ Raise("AssertionError")
            /\ UNCHANGED args
    /\ UNCHANGED << src_dict, tgt_dict, src_punc_tokens, tgt_punc_tokens,
                    align_sents, itr, sample, alignments, todo, out_file,
                    batches, calls, log >>

(***************************************************************************)
(* Lines 33-75: task, dictionaries, models, batch iterator. All framework  *)
(* calls; any of them may raise. getattr(task, 'source_dictionary', None)  *)
(* yields None for a task without a source dictionary.                     *)
(***************************************************************************)
Setup ==
    /\ pc = "setup"
    /\ \/ /\ \E sd \in {Some(LoadedDict), None} :
                /\ src_dict' = sd
                /\ tgt_dict' = Some(LoadedDict)
          /\ itr' = "active"
          /\ pc' = "punc"
          /\ UNCHANGED error
       \/ /\ Raise("FrameworkError")
          /\ UNCHANGED << src_dict, tgt_dict, itr >>
    /\ UNCHANGED << args, src_punc_tokens, tgt_punc_tokens, align_sents,
                    sample, alignments, todo, out_file, batches, calls, log >>

(***************************************************************************)
(* Lines 84-90: punctuation-id lists.                                      *)
(***************************************************************************)
DerivePunc ==
    /\ pc = "punc"
    /\ IF args.print_vanilla_alignment
       THEN IF src_dict = None
            THEN \* len(None)
                 /\ Raise("TypeError")
                 /\ UNCHANGED << src_punc_tokens, tgt_punc_tokens >>
            ELSE /\ src_punc_tokens' = Some(PuncTokens(Val(src_dict)))
                 /\ tgt_punc_tokens' = Some(PuncTokens(Val(tgt_dict)))
                 /\ pc' = "alloc"
                 /\ UNCHANGED error
       ELSE /\ src_punc_tokens' = None
            /\ UNCHANGED tgt_punc_tokens
            /\ pc' = "alloc"
            /\ UNCHANGED error
    /\ UNCHANGED << args, src_dict, tgt_dict, align_sents, itr, sample,
                    alignments, todo, out_file, batches, calls, log >>

(***************************************************************************)
(* Lines 95-96: the results buffer.                                        *)
(***************************************************************************)
Allocate ==
    /\ pc = "alloc"
    /\ align_sents' = IF ShouldAllocate(args)
                      THEN Some([i \in 0 .. Capacity - 1 |-> << >>])
                      ELSE align_sents
    /\ pc' = "loop"
    /\ UNCHANGED << args, error, src_dict, tgt_dict, src_punc_tokens,
                    tgt_punc_tokens, itr, sample, alignments, todo, out_file,
                    batches, calls, log >>

(***************************************************************************)
(* The batch iterator (framework). A batch is                              *)
(*   [net_input |-> whether the key 'net_input' is present,                *)
(*    id        |-> sample['id'].tolist()]                                 *)
(***************************************************************************)
\* Number of sample ids the iterator has yielded so far.
Yielded(bs) ==
    LET F[n \in 0 .. Len(bs)] == IF n = 0 THEN 0 ELSE F[n - 1] + Len(bs[n].id)
    IN  F[Len(bs)]

IdLists(n) == UNION { [1 .. k -> SampleIds] : k \in 1 .. n }

\* Batches the iterator may yield next.
NextBatches ==
    [ net_input : BOOLEAN, id : IdLists(MaxSamples - Yielded(batches)) ]

\* Set of elements of a sequence.
Range(q) == { q[k] : k \in 1 .. Len(q) }

\* The mapping an extraction routine returns for the n-th batch: one
\* alignment per sample id of the batch.
Extracted(n, b) == [ i \in Range(b.id) |-> << n, i >> ]

(***************************************************************************)
(* Lines 98-108: one iteration of `for sample in t` up to the inner loop:  *)
(* fetch, the net_input test, the dispatch to an extraction routine.       *)
(***************************************************************************)
\* Fault injection: the net_input test missing.
SkippedNever(b) == FALSE

\* Line 100: `if 'net_input' not in sample: continue`.
Skipped(b) == ~b.net_input

NextBatch ==
    /\ pc = "loop"
    /\ \/ \* StopIteration: the iterator is exhausted, the loop ends
          /\ itr' = "exhausted"
          /\ pc' = "output"
          /\ UNCHANGED << error, sample, alignments, todo, batches, calls >>
       \/ \* the iterator raises while producing the batch
          /\ Raise("FrameworkError")
          /\ UNCHANGED << itr, sample, alignments, todo, batches, calls >>
       \/ \E b \in NextBatches :
            /\ batches' = Append(batches, b)
            /\ sample' = Some(b)
            /\ UNCHANGED itr
            /\ IF Skipped(b)
               THEN /\ UNCHANGED << pc, error, alignments, todo, calls >>
               ELSE IF args.print_vanilla_alignment
               THEN IF src_punc_tokens = Unbound \/ tgt_punc_tokens = Unbound
                    THEN /\ Raise("NameError")
                         /\ UNCHANGED << alignments, todo, calls >>
                    ELSE /\ calls' = Append(calls, [ batch |-> Len(batches) + 1,
                                                     fn |-> Strategy(args) ])
                         /\ \/ \* the routine returns
                               /\ alignments' = Some(Extracted(Len(batches) + 1, b))
                               /\ todo' = b.id
                               /\ pc' = "ids"
                               /\ UNCHANGED error
                            \/ \* the routine raises
                               /\ Raise("FrameworkError")
                               /\ UNCHANGED << alignments, todo >>
               ELSE /\ alignments' = None
                    /\ todo' = b.id
                    /\ pc' = "ids"
                    /\ UNCHANGED << error, calls >>
    /\ UNCHANGED << args, src_dict, tgt_dict, src_punc_tokens, tgt_punc_tokens,
                    align_sents, out_file, log >>

(***************************************************************************)
(* Lines 110-112: one iteration of `for sample_id in sample['id']`.        *)
(***************************************************************************)
\* Fault injection: an index equal to the length accepted.
InBoundsInclusive(i) == -Capacity <= i /\ i <= Capacity

\* list indexing: lst[i] is defined for -len <= i < len.
InBounds(i) == -Capacity <= i /\ i < Capacity
SlotOf(i) == IF i < 0 THEN i + Capacity ELSE i

\* Fault injection: a result already in the slot is not appended again.
AppendResultOnce(buf, i, r) ==
    IF \E k \in 1 .. Len(buf[i]) : buf[i][k] = r
    THEN buf
    ELSE [ buf EXCEPT ![i] = Append(@, r) ]

\* align_sents[i].append(r)
AppendResult(buf, i, r) == [ buf EXCEPT ![SlotOf(i)] = Append(@, r) ]

AppendStep ==
    /\ pc = "ids"
    /\ todo # << >>
    /\ LET sample_id == Head(todo) IN
       IF ShouldBuffer(args)
       THEN IF align_sents = Unbound \/ alignments = Unbound
            THEN /\ Raise("NameError")
                 /\ UNCHANGED << align_sents, todo, log >>
            ELSE IF ~InBounds(sample_id)
            THEN \* align_sents[int(sample_id)] is evaluated first
                 /\ Raise("IndexError")
                 /\ UNCHANGED << align_sents, todo, log >>
            ELSE IF alignments = None
            THEN \* None[int(sample_id)]
                 /\ Raise("TypeError")
                 /\ UNCHANGED << align_sents, todo, log >>
            ELSE /\ align_sents' = Some(AppendResult(Val(align_sents), sample_id,
                                                     Val(alignments)[sample_id]))
                 /\ log' = Append(log, << sample_id, Val(alignments)[sample_id] >>)
                 /\ todo' = Tail(todo)
                 /\ pc' = IF Tail(todo) = << >> THEN "loop" ELSE "ids"
                 /\ UNCHANGED error
       ELSE /\ todo' = Tail(todo)
            /\ pc' = IF Tail(todo) = << >> THEN "loop" ELSE "ids"
            /\ UNCHANGED << error, align_sents, log >>
    /\ UNCHANGED << args, src_dict, tgt_dict, src_punc_tokens, tgt_punc_tokens,
                    itr, sample, alignments, out_file, batches, calls >>

(***************************************************************************)
(* Lines 115-122: the output file.                                         *)
(***************************************************************************)
\* f.write(str(sent)+'\n'): the text of an opaque result, and a newline.
Line(sent) == [ str |-> sent, end |-> "\n" ]

\* Fault injection: only the first result of a slot is written.
FileLinesFirstOnly(buf) ==
    LET F[n \in 0 .. Capacity] ==
            IF n = 0 THEN << >>
            ELSE IF Len(buf[n - 1]) = 0 THEN F[n - 1]
            ELSE Append(F[n - 1], [ str |-> buf[n - 1][1], end |-> "\n" ])
    IN  F[Capacity]

\* Lines 117-121: every slot in index order, empty slots skipped, the
\* results of a slot in list order.
FileLines(buf) ==
    LET F[n \in 0 .. Capacity] ==
            IF n = 0 THEN << >>
            ELSE IF Len(buf[n - 1]) = 0 THEN F[n - 1]
            ELSE F[n - 1] \o [ k \in 1 .. Len(buf[n - 1]) |-> Line(buf[n - 1][k]) ]
    IN  F[Capacity]

\* Fault injection: the output block indented into the batch loop, so that it runs
\* after each batch as well.
WriteOutputInsideLoop ==
    /\ pc \in {"loop", "output"}
    /\ IF ShouldWrite(args) /\ align_sents # Unbound
       THEN out_file' = Some(FileLines(Val(align_sents)))
       ELSE UNCHANGED out_file
    /\ pc' = IF pc = "loop" THEN "loop" ELSE "done"
    /\ UNCHANGED << args, error, src_dict, tgt_dict, src_punc_tokens,
                    tgt_punc_tokens, align_sents, itr, sample, alignments, todo,
                    batches, calls, log >>

WriteOutput ==
    /\ pc = "output"
    /\ IF ShouldWrite(args)
       THEN \/ \* open() raises (the directory is missing, not writable)
               /\ Raise("OSError")
               /\ UNCHANGED out_file
            \/ IF align_sents = Unbound
               THEN \* the file is open and empty when line 117 raises
                    /\ out_file' = Some(<< >>)
                    /\ Raise("NameError")
               ELSE /\ out_file' = Some(FileLines(Val(align_sents)))
                    /\ pc' = "done"
                    /\ UNCHANGED error
       ELSE /\ pc' = "done"
            /\ UNCHANGED << error, out_file >>
    /\ UNCHANGED << args, src_dict, tgt_dict, src_punc_tokens, tgt_punc_tokens,
                    align_sents, itr, sample, alignments, todo,
                    batches, calls, log >>

Next ==
    \/ CheckArgs
    \/ Setup
    \/ DerivePunc
    \/ Allocate
    \/ NextBatch
    \/ AppendStep
    \/ WriteOutput

\* Full runs, the generation options at their defaults.
Spec == Init /\ [][Next]_vars

\* The startup stage under every combination of options.
InitStartup == InitWith(AllArgs)
NextStartup == CheckArgs \/ Setup
SpecStartup == InitStartup /\ [][NextStartup]_vars

\* The punctuation-list derivation applied to every pair of dictionaries of
\* at most MaxVocab symbols: main has passed the setup stage (line 84).
InitPunc ==
    /\ args \in { [a EXCEPT !.path = Some("model.pt"),
                            !.max_tokens = Some(DefaultMaxTokens)] : a \in DefaultArgs }
    /\ pc = "punc"
    /\ error = NoError
    /\ src_dict \in { Some(d) : d \in Dictionaries(MaxVocab) } \cup { None }
    /\ tgt_dict \in { Some(d) : d \in Dictionaries(MaxVocab) }
    /\ src_punc_tokens = Unbound
    /\ tgt_punc_tokens = Unbound
    /\ align_sents = Unbound
    /\ itr = "active"
    /\ sample = Unbound
    /\ alignments = Unbound
    /\ todo = << >>
    /\ out_file = NotCreated
    /\ batches = << >>
    /\ calls = << >>
    /\ log = << >>
NextPunc == DerivePunc
SpecPunc == InitPunc /\ [][NextPunc]_vars

(***************************************************************************)
(* Properties.                                                             *)
(***************************************************************************)
\* Both flags of the claims, read from the options themselves.
BothFlags == args.print_vanilla_alignment /\ args.decoding_path # None

\* The results appended for id i, in the order they were appended.
AppendedFor(i) ==
    LET F[n \in 0 .. Len(log)] ==
            IF n = 0 THEN << >>
            ELSE IF log[n][1] = i THEN Append(F[n - 1], log[n][2]) ELSE F[n - 1]
    IN  F[Len(log)]

\* The appended results by ascending id, one line each.
LinesByAscendingId ==
    LET F[n \in 0 .. Capacity] ==
            IF n = 0 THEN << >>
            ELSE F[n - 1] \o [ k \in 1 .. Len(AppendedFor(n - 1)) |->
                                 [ str |-> AppendedFor(n - 1)[k], end |-> "\n" ] ]
    IN  F[Capacity]

\* C1: with both flags set, a run that reaches its end has written a file
\* whose lines are exactly the appended results in ascending sample-id
\* order, the results of one id in append order, and nothing else (no line
\* for an id without a result).
C1_OutputInIdOrder ==
    (pc = "done" /\ BothFlags) =>
        /\ out_file = Some(LinesByAscendingId)
        /\ Len(Val(out_file)) = Len(log)

\* C1 witness: the appends (1,A) | (0,B),(1,C) over two batches gave the
\* lines B, A, C.
C1_Witness ==
    /\ pc = "done"
    /\ BothFlags
    /\ log = << <<1, <<1, 1>> >>, <<0, <<2, 0>> >>, <<1, <<2, 1>> >> >>
    /\ out_file = Some(<< [ str |-> <<2, 0>>, end |-> "\n" ],
                          [ str |-> <<1, 1>>, end |-> "\n" ],
                          [ str |-> <<2, 1>>, end |-> "\n" ] >>)

\* C2: when --print-vanilla-alignment is false or --decoding-path is unset,
\* nothing is ever appended to the buffer and the output file is never
\* created.
C2_NoBufferNoFile ==
    (~BothFlags) =>
        /\ log = << >>
        /\ out_file = NotCreated
        /\ align_sents # Unbound =>
              \A i \in 0 .. Capacity - 1 : Val(align_sents)[i] = << >>

\* C2 witness: a finished run without the alignment flag, with an output
\* directory, that processed a batch with model input.
C2_Witness ==
    /\ pc = "done"
    /\ ~args.print_vanilla_alignment
    /\ args.decoding_path # None
    /\ \E k \in 1 .. Len(batches) : batches[k].net_input

\* C3: the output file exists only after the iterator was exhausted, and a
\* run that ended with an exception has created no output file.
C3_FileOnlyAfterFullPass ==
    /\ out_file # NotCreated => (itr = "exhausted" /\ todo = << >> /\ pc = "done")
    /\ error # NoError => out_file = NotCreated

\* C3 witness: a run aborted inside a batch after results had been buffered.
C3_Witness ==
    /\ pc = "failed"
    /\ error \in {"IndexError", "FrameworkError"}
    /\ log # << >>
    /\ out_file = NotCreated

\* The startup preconditions as the specification states them.
ViolatesPrecondition(a) ==
    \/ a.path = None
    \/ a.sampling /\ a.nbest # a.beam
    \/ a.replace_unk # None /\ ~a.raw_text

\* C4: options violating a startup precondition make main fail with an
\* assertion error before any setup, iteration or file I/O; options
\* satisfying all three never fail with an assertion error.
C4_AssertionsFailFast ==
    /\ ViolatesPrecondition(args) =>
          /\ pc \in {"start", "failed"}
          /\ pc = "failed" => error = "AssertionError"
          /\ src_dict = Unbound /\ tgt_dict = Unbound /\ itr = Unbound
          /\ align_sents = Unbound /\ batches = << >>
          /\ out_file = NotCreated
    /\ ~ViolatesPrecondition(args) =>
          error # "AssertionError"

\* C4 witness: only the sampling precondition is violated, and main failed.
C4_Witness ==
    /\ pc = "failed"
    /\ error = "AssertionError"
    /\ args.path # None
    /\ args.sampling /\ args.nbest # args.beam
    /\ args.replace_unk = None

\* A token string that is one ASCII punctuation character.
IsOnePunctuationChar(s) == Len(s) = 1 /\ s[1] \in Range(punc)

IdsOfPunctuation(d) ==
    { w \in 0 .. Len(d) - 1 : IsOnePunctuationChar(d[w + 1]) }

\* C5: when extraction is requested, each derived punctuation-id list holds
\* exactly the ids whose token string is one ASCII punctuation character.
C5_PuncIdsAreSingleChars ==
    (pc = "alloc" /\ args.print_vanilla_alignment) =>
        /\ Range(Val(src_punc_tokens)) = IdsOfPunctuation(Val(src_dict))
        /\ Range(Val(tgt_punc_tokens)) = IdsOfPunctuation(Val(tgt_dict))

\* Indices of the batches that carried model input, in order.
InputBatches ==
    LET F[n \in 0 .. Len(batches)] ==
            IF n = 0 THEN << >>
            ELSE IF batches[n].net_input THEN Append(F[n - 1], n) ELSE F[n - 1]
    IN  F[Len(batches)]

\* C6: with extraction requested, every batch with model input is handed to
\* exactly one routine, once, and it is the shifted routine for all of them
\* when --set-shift is set and the non-shifted one otherwise; without
\* extraction no routine is ever called.
C6_OneStrategyPerRun ==
    /\ ~args.print_vanilla_alignment => calls = << >>
    /\ args.print_vanilla_alignment =>
          /\ [ k \in 1 .. Len(calls) |-> calls[k].batch ] = InputBatches
          /\ \A k \in 1 .. Len(calls) :
                calls[k].fn = IF args.set_shift
                              THEN "extract_soft_alignment_2"
                              ELSE "extract_soft_alignment_2_noshift"

\* C6 witness: a shifted run of three batches, one of them skipped.
C6_Witness ==
    /\ args.print_vanilla_alignment
    /\ args.set_shift
    /\ Len(batches) = 3
    /\ Len(calls) = 2

\* C7: with both flags set, the inner-loop step for a sample id at or above
\* the capacity ends the run with an index error and changes no slot of the
\* buffer; a run ended that way has written no output file.
C7_OutOfBoundsStep ==
    (pc = "ids" /\ BothFlags /\ todo # << >> /\ Head(todo) >= Capacity) =>
        /\ pc' = "failed"
        /\ error' = "IndexError"
        /\ align_sents' = align_sents
        /\ log' = log
        /\ out_file' = NotCreated

C7_OutOfBoundsAborts ==
    /\ [][C7_OutOfBoundsStep]_vars
    /\ [](error = "IndexError" => (pc = "failed" /\ out_file = NotCreated))

\* C7 witness: the run failed on an out-of-range id after a result of the
\* same batch had been buffered.
C7_Witness ==
    /\ pc = "failed"
    /\ error = "IndexError"
    /\ BothFlags
    /\ todo # << >> /\ Head(todo) >= Capacity
    /\ log # << >>

\* Occurrences of i in a sequence of ids.
Occurrences(q, i) == Cardinality({ k \in 1 .. Len(q) : q[k] = i })

\* Occurrences of i over the id lists of all batches that carried model input.
Processed(i) ==
    LET F[n \in 0 .. Len(batches)] ==
            IF n = 0 THEN 0
            ELSE IF batches[n].net_input THEN F[n - 1] + Occurrences(batches[n].id, i)
            ELSE F[n - 1]
    IN  F[Len(batches)]

\* C8: with both flags set, the inner-loop step for an id below the
\* capacity appends the extraction result of that id to the end of slot
\* [id] and leaves every other slot as it was ...
C8_AppendStepFrame ==
    (pc = "ids" /\ BothFlags /\ todo # << >> /\ Head(todo) < Capacity) =>
        /\ align_sents' # Unbound
        /\ \A j \in 0 .. Capacity - 1 :
              Val(align_sents')[j] =
                  IF j = Head(todo)
                  THEN Append(Val(align_sents)[j], << Len(batches), Head(todo) >>)
                  ELSE Val(align_sents)[j]
        /\ todo' = Tail(todo)

\* ... and between batches the length of slot [id] is the number of
\* occurrences of id over all processed batches.
C8_SlotLengths ==
    (BothFlags /\ pc \in {"loop", "output", "done"}) =>
        \A i \in 0 .. Capacity - 1 : Len(Val(align_sents)[i]) = Processed(i)

C8_AppendPerOccurrence ==
    /\ [][C8_AppendStepFrame]_vars
    /\ []C8_SlotLengths

\* C8 witness: one batch listed id 1 twice and slot [1] got its result twice.
C8_Witness ==
    /\ BothFlags
    /\ pc = "loop"
    /\ Val(align_sents)[1] = << <<1, 1>>, <<1, 1>> >>
    /\ Val(align_sents)[0] = << >>

\* C9: a batch without 'net_input' is skipped: no routine is called for it,
\* the buffer is unchanged, and the loop goes on to the next batch.
C9_SkipStep ==
    (Len(batches') = Len(batches) + 1 /\ ~batches'[Len(batches')].net_input) =>
        /\ calls' = calls
        /\ align_sents' = align_sents
        /\ log' = log
        /\ alignments' = alignments
        /\ todo' = << >>
        /\ pc' = "loop"
        /\ error' = NoError

C9_BatchWithoutInputSkipped == [][C9_SkipStep]_vars

\* C9 witness: with both flags set, a first batch without model input that
\* carried ids left the buffer empty, and the next batch was processed.
C9_Witness ==
    /\ BothFlags
    /\ pc = "loop"
    /\ Len(batches) = 2
    /\ ~batches[1].net_input /\ batches[1].id = << 0, 1 >>
    /\ batches[2].net_input
    /\ log = << <<1, <<2, 1>> >> >>

\* C10: the buffer and the target punctuation list are never used while
\* unbound: no run ends with a NameError, the buffer is bound wherever an
\* append or the output stage will read it, and the punctuation lists are
\* bound wherever an extraction call will read them.
C10_NoUseBeforeDefinition ==
    /\ error # "NameError"
    /\ (pc \in {"loop", "ids", "output"} /\ BothFlags) => align_sents # Unbound
    /\ (pc \in {"loop", "ids"} /\ args.print_vanilla_alignment) =>
          (tgt_punc_tokens # Unbound /\ src_punc_tokens # Unbound)

\* C10 witness: a finished run without extraction and with an output
\* directory: the buffer was allocated, the target list never bound, and a
\* batch went through the inner loop.
C10_Witness ==
    /\ pc = "done"
    /\ ~args.print_vanilla_alignment
    /\ args.decoding_path # None
    /\ align_sents # Unbound
    /\ tgt_punc_tokens = Unbound
    /\ \E k \in 1 .. Len(batches) : batches[k].net_input
====
